---- MODULE Spec2Model ----
(***************************************************************************)
(* Model of cp/audio/spectrogram.py: the Spectrogram container, its lazy   *)
(* caches (stft, spec, phase, lgd), its parameter setters and the batch    *)
(* derivation pass compute_stft.                                           *)
(*                                                                         *)
(* A derived matrix is modelled by what determines its content: its shape, *)
(* the frame selection it was computed for, how many of its rows were      *)
(* written, whether the frames were circularly shifted, the FFT size and,  *)
(* for the magnitude spectrogram, the filterbank and the log parameters    *)
(* applied.  Rows that np.empty allocated and the pass never wrote hold    *)
(* arbitrary values: a nondeterministic junk tag stands for them.          *)
(***************************************************************************)
EXTENDS Integers, Sequences, FiniteSets, TLC

VARIABLES obj, attrs, self, arrays, last, seen, calls, whiten, frame

vars == <<obj, attrs, self, arrays, last, seen, calls, whiten, frame>>

---------------------------------------------------------------------------
(* Bounds of the model *)

\* the frame provider's num_frames is drawn from 0..MaxFrames
MaxFrames == 2
\* slice steps are drawn from 1..MaxStep
MaxStep == 2
\* length of every window array (and of every frame)
WindowSize == 4
\* where the batch entry point is driven with every keyword, at most
\* MaxCalls such calls are made on one container
MaxCalls == 2
\* the magnitudes given to the whitening loop are 0..MaxMagnitude units
MaxMagnitude == 4
\* its floor coefficient is 1..MaxFloor units
MaxFloor == 2
\* a cached magnitude spectrogram is whitened at most MaxWhiten times
MaxWhiten == 2

---------------------------------------------------------------------------
(* Values *)

\* Python's None for an optional keyword argument, and a supplied value
None == <<>>
Some(v) == <<v>>
Opt(S) == {None} \cup {Some(v) : v \in S}

\* an attribute holding None (a derived matrix that is Absent)
NoneM == [none |-> TRUE]

Min(a, b) == IF a <= b THEN a ELSE b

\* FFT sizes used: the window size and a zero-padded one
FftSizes == {WindowSize, 2 * WindowSize}

\* filterbank=None, and filterbank matrices (rows x cols)
NoFB == [kind |-> "None", rows |-> 0, cols |-> 0]
Filterbanks == {[kind |-> "ndarray", rows |-> WindowSize \div 2, cols |-> 1]}

\* defaults of mul (1) and add (0) and the values of the logarithmic variant
MulValues == {1, 5}
AddValues == {0, 1}

\* frame selections: all frames, one frame index, a slice
AllFrames == [kind |-> "all", start |-> 0, stop |-> 0, step |-> 1]
IntIndex(i) == [kind |-> "int", start |-> i, stop |-> i, step |-> 1]
Slice(a, b, c) == [kind |-> "slice", start |-> a, stop |-> b, step |-> c]

Indices(n) ==
    {AllFrames}
        \cup {IntIndex(i) : i \in 0..(n - 1)}
        \cup {Slice(a, b, c) : a \in 0..n, b \in 0..n, c \in 1..MaxStep}

\* the element of a one-element set
The(S) == CHOOSE x \in S : TRUE

\* the four derived matrices
Matrices == {"stft", "spec", "phase", "lgd"}

\* a complex or real matrix of the transform (stft, phase, lgd)
Mat(rows, cols, filled, junk, shifted, nfft, sel) ==
    [rows |-> rows, cols |-> cols, filled |-> filled, junk |-> junk,
     shifted |-> shifted, nfft |-> nfft, sel |-> sel]

\* |dft| does not change under a circular shift of the frame when the
\* transform has the frame's length; it does when the shifted frame is
\* zero-padded (or truncated) to another length.
MagShifted(shifted, nfft) == shifted /\ nfft # WindowSize

\* a magnitude spectrogram: the transform's magnitude, then filterbank, then log
SpecMat(rows, cols, filled, junk, shifted, nfft, sel, fb, lg, m, a) ==
    [rows |-> rows, cols |-> cols, filled |-> filled, junk |-> junk,
     shifted |-> MagShifted(shifted, nfft), nfft |-> nfft, sel |-> sel,
     fb |-> fb, log |-> lg,
     mul |-> IF lg THEN m ELSE 0, add |-> IF lg THEN a ELSE 0,
     aw |-> 0]

\* the object before __init__ has set anything
Blank ==
    [window |-> "unset", num_frames |-> 0,
     spec |-> NoneM, stft |-> NoneM, phase |-> NoneM, lgd |-> NoneM,
     f_stft |-> FALSE, f_phase |-> FALSE, f_lgd |-> FALSE,
     fft_size |-> 0, filterbank |-> NoFB, log |-> FALSE, mul |-> 0, add |-> 0]

\* what an operation did: the object after it, the exception it raised ("ok"
\* for none), the matrix it returned, the derivation passes it ran, and the
\* matrices it allocated or assigned
Outcome(s, err, ret, passes, wrote) ==
    [s |-> s, err |-> err, ret |-> ret, passes |-> passes, wrote |-> wrote]

Present(s) == {m \in Matrices : s[m] # NoneM}

---------------------------------------------------------------------------
(* The parameter setters: each stores the value and invalidates spec *)

set_filterbank(s, filterbank) ==
    [s EXCEPT !.filterbank = filterbank, !.spec = NoneM]

\* a setter that forgets to invalidate the magnitude spectrogram
set_log_keeps_spec(s, log) ==
    [s EXCEPT !.log = log]

set_log(s, log) ==
    [s EXCEPT !.log = log, !.spec = NoneM]

set_mul(s, mul) ==
    [s EXCEPT !.mul = mul, !.spec = NoneM]

set_add(s, add) ==
    [s EXCEPT !.add = add, !.spec = NoneM]

\* fft_size >> 1
fft_bins(s) == s.fft_size \div 2

---------------------------------------------------------------------------
(* The frame provider (audio.FramedAudio), which the repository keeps      *)
(* outside this file: a slice yields the frames start, start+step, ...     *)
(* below stop, a single index yields one frame, which is a sequence of     *)
(* window-size samples, and the full selection yields every frame.         *)

CeilDiv(a, b) == (a + b - 1) \div b

ProviderItems(s, index) ==
    CASE index.kind = "slice" ->
            IF index.stop > index.start
            THEN CeilDiv(index.stop - index.start, index.step) ELSE 0
      [] index.kind = "int" -> WindowSize
      [] OTHER -> s.num_frames

---------------------------------------------------------------------------
(* compute_stft *)

\* the number of rows compute_stft allocates (Python 2: / floors)
Frames(s, index) ==
    CASE index.kind = "slice" ->
            (index.stop + 1 - index.start) \div index.step
      [] index.kind = "int" -> 1
      [] OTHER -> s.num_frames

\* no keyword overrides
NoOverrides ==
    [filterbank |-> None, log |-> None, mul |-> None, add |-> None,
     stft |-> None, phase |-> None, lgd |-> None, fft_size |-> None]

\* a pass that uses the log keyword without storing it through the setter
ApplyOverrides_drops_log(s, o) ==
    LET s1 == IF o.filterbank # None THEN set_filterbank(s, o.filterbank[1]) ELSE s
        s3 == IF o.mul # None THEN set_mul(s1, o.mul[1]) ELSE s1
    IN  IF o.add # None THEN set_add(s3, o.add[1]) ELSE s3

\* "if x is not None: self.x = x" for filterbank, log, mul, add
ApplyOverrides(s, o) ==
    LET s1 == IF o.filterbank # None THEN set_filterbank(s, o.filterbank[1]) ELSE s
        s2 == IF o.log # None THEN set_log(s1, o.log[1]) ELSE s1
        s3 == IF o.mul # None THEN set_mul(s2, o.mul[1]) ELSE s2
    IN  IF o.add # None THEN set_add(s3, o.add[1]) ELSE s3

\* a pass that ignores the retention keyword
KeepFlag_ignores_keyword(flag, override) == flag

\* "if stft: self._stft = True" and the same for phase and lgd
KeepFlag(flag, override) == flag \/ override = Some(TRUE)

\* the number of magnitude columns allocated
Bins(s) ==
    IF s.filterbank.kind = "ndarray" THEN s.filterbank.cols ELSE fft_bins(s)

\* numpy stores a vector of length len into a row of length cols when the
\* lengths agree or the vector has one element (broadcasting)
RowFits(len, cols) == len = cols \/ len = 1

\* np.unwrap(angle, axis=1) on the one-dimensional angle of one frame: a
\* one-dimensional array has no axis 1
UnwrapFrameFails == TRUE

\* The step of the loop body that raises for the frame written to row k,
\* as <<matrix, exception>>, or <<"none", "ok">>.  len is the length of the
\* dft of one frame.
FailStage(s, k, rows, len) ==
    IF s.f_stft /\ k >= rows THEN <<"stft", "IndexError">>
    ELSE IF s.f_stft /\ ~RowFits(len, fft_bins(s)) THEN <<"stft", "ValueError">>
    ELSE IF s.f_phase /\ k >= rows THEN <<"phase", "IndexError">>
    ELSE IF s.f_phase /\ ~RowFits(len, fft_bins(s)) THEN <<"phase", "ValueError">>
    ELSE IF s.f_lgd /\ UnwrapFrameFails THEN <<"lgd", "AxisError">>
    ELSE IF s.filterbank # NoFB /\ s.filterbank.rows # len
        THEN <<"spec", "ValueError">>
    ELSE IF k >= rows THEN <<"spec", "IndexError">>
    ELSE IF ~RowFits(IF s.filterbank # NoFB THEN s.filterbank.cols ELSE len,
                     Bins(s))
        THEN <<"spec", "ValueError">>
    ELSE <<"none", "ok">>

\* position of a matrix in the loop body
StageOrd(m) ==
    CASE m = "stft" -> 1 [] m = "phase" -> 2 [] m = "lgd" -> 3
      [] m = "spec" -> 4 [] OTHER -> 5

\* The step that ends the loop over the frames, as FailStage gives it.
\* items is the number of iterations the provider gives, rows the number
\* of rows allocated.
LoopFail(s, items, rows, len) ==
    IF items = 0 THEN <<"none", "ok">>
    ELSE IF FailStage(s, 0, rows, len)[2] # "ok" THEN FailStage(s, 0, rows, len)
    ELSE IF items > rows THEN FailStage(s, rows, rows, len)
    ELSE <<"none", "ok">>

\* The loop over the frames: the exception it ends with and the number of
\* rows written per matrix.
LoopResult(s, items, rows, len) ==
    The({ LET done == IF items = 0 \/ FailStage(s, 0, rows, len)[2] # "ok"
                      THEN 0 ELSE Min(items, rows)
              \* the failing iteration wrote the rows of the earlier steps
              part(m) == IF fail[2] # "ok" /\ done < rows
                            /\ StageOrd(m) < StageOrd(fail[1])
                         THEN 1 ELSE 0
          IN  [err |-> fail[2],
               filled |-> [m \in Matrices |-> done + part(m)]]
          : fail \in {LoopFail(s, items, rows, len)} })

\* rows np.empty allocated and the loop never wrote hold arbitrary values
Junk(rows, filled, j) == IF filled < rows THEN j ELSE 0

\* "if stft: self._stft = True", and the same for phase and lgd
SetFlags(s, o) ==
    [s EXCEPT !.f_stft = KeepFlag(s.f_stft, o.stft),
              !.f_phase = KeepFlag(s.f_phase, o.phase),
              !.f_lgd = KeepFlag(s.f_lgd, o.lgd)]

\* the FFT size of one pass: the keyword if given, else the stored one
PassFftSize(s, o) == IF o.fft_size # None THEN o.fft_size[1] ELSE s.fft_size

\* the frame loop of one pass, on the object with its flags set
PassLoop(s, index, nfft) ==
    IF s.window = "unset"
    THEN \* _fft_window reads self.window
         [err |-> "AttributeError", filled |-> [m \in Matrices |-> 0]]
    ELSE LoopResult(s, ProviderItems(s, index), Frames(s, index),
                    Min(nfft, fft_bins(s)))

\* a pass that keeps only the phase shifts the frames; one that keeps only
\* the local group delay does not
ShiftFrames_phase_only(s) == s.f_phase

\* line 350: the frames are shifted when the phase or the local group delay
\* is kept
ShiftFrames(s) == s.f_phase \/ s.f_lgd

\* the matrices one pass allocates and what the loop left in them
Allocate(s, index, nfft, j, loop) ==
    LET frames == Frames(s, index)
        shifted == ShiftFrames(s)
        wrote == {"spec"} \cup (IF s.f_stft THEN {"stft"} ELSE {})
                    \cup (IF s.f_phase THEN {"phase"} ELSE {})
                    \cup (IF s.f_lgd THEN {"lgd"} ELSE {})
        M(m) == Mat(frames, fft_bins(s), loop.filled[m],
                    Junk(frames, loop.filled[m], j), shifted, nfft, index)
    IN  Outcome([s EXCEPT
                    !.spec = SpecMat(frames, Bins(s), loop.filled["spec"],
                                     Junk(frames, loop.filled["spec"], j),
                                     shifted, nfft, index,
                                     s.filterbank, s.log, s.mul, s.add),
                    !.stft = IF s.f_stft THEN M("stft") ELSE @,
                    !.phase = IF s.f_phase THEN M("phase") ELSE @,
                    !.lgd = IF s.f_lgd THEN M("lgd") ELSE @],
                loop.err, NoneM, 1, wrote)

compute_stft(s, index, o, j) ==
    IF Frames(s, index) < 0
    THEN \* np.empty refuses a negative dimension
         Outcome(ApplyOverrides(s, o), "ValueError", NoneM, 1, {})
    ELSE The({ The({ Allocate(s2, index, PassFftSize(s2, o), j, loop)
                     : loop \in {PassLoop(s2, index, PassFftSize(s2, o))} })
               : s2 \in {SetFlags(ApplyOverrides(s, o), o)} })

---------------------------------------------------------------------------
(* The lazy read accessors *)

\* the result of a read that went through compute_stft
AfterPass(pass, m) ==
    The({ Outcome(r.s, r.err, IF r.err = "ok" THEN r.s[m] ELSE NoneM,
                  r.passes, r.wrote)
          : r \in {pass} })

\* np.angle(self.__stft)
AngleOf(stft) == stft

read_stft(s, j) ==
    IF s.stft = NoneM
    THEN AfterPass(compute_stft(s, AllFrames,
                                [NoOverrides EXCEPT !.stft = Some(TRUE)], j),
                   "stft")
    ELSE Outcome(s, "ok", s.stft, 0, {})

\* np.abs(self.__stft), before filterbank and log
AbsOf(stft) ==
    SpecMat(stft.rows, stft.cols, stft.filled, stft.junk, stft.shifted,
            stft.nfft, stft.sel, NoFB, FALSE, 0, 0)

\* np.dot(self.__spec, self.filterbank), then np.log10(mul * spec + add)
FilterAndLog(s, stft) ==
    SpecMat(stft.rows,
            IF s.filterbank # NoFB THEN s.filterbank.cols ELSE stft.cols,
            stft.filled, stft.junk, stft.shifted, stft.nfft, stft.sel,
            s.filterbank, s.log, s.mul, s.add)

read_spec(s, j) ==
    IF s.spec = NoneM
    THEN IF s.stft # NoneM
         THEN IF s.filterbank # NoFB /\ s.filterbank.rows # s.stft.cols
              THEN \* np.dot raises after self.__spec was assigned |stft|
                   Outcome([s EXCEPT !.spec = AbsOf(s.stft)], "ValueError",
                           NoneM, 0, {"spec"})
              ELSE LET s1 == [s EXCEPT !.spec = FilterAndLog(s, s.stft)]
                   IN  Outcome(s1, "ok", s1.spec, 0, {"spec"})
         ELSE AfterPass(compute_stft(s, AllFrames, NoOverrides, j), "spec")
    ELSE Outcome(s, "ok", s.spec, 0, {})

read_phase(s, j) ==
    IF s.phase = NoneM
    THEN IF s.stft # NoneM
         THEN LET s1 == [s EXCEPT !.phase = AngleOf(s.stft)]
              IN  Outcome(s1, "ok", s1.phase, 0, {"phase"})
         ELSE AfterPass(compute_stft(s, AllFrames,
                                     [NoOverrides EXCEPT !.phase = Some(TRUE)], j),
                        "phase")
    ELSE Outcome(s, "ok", s.phase, 0, {})

\* "self.__lgd[:, :-1] = unwrapped_phase[:, -1] - unwrapped_phase[:, 1:]" with
\* self.__lgd None: the subtraction broadcasts a vector of rows elements
\* against rows x (cols - 1) or raises, and the store into None raises
LgdFromPhaseError(phase) ==
    IF phase.rows = phase.cols - 1 \/ phase.rows = 1 \/ phase.cols - 1 = 1
    THEN "TypeError" ELSE "ValueError"

read_lgd(s, j) ==
    IF s.lgd = NoneM
    THEN LET derive == s.stft # NoneM /\ s.phase = NoneM
             s1 == IF derive THEN [s EXCEPT !.phase = AngleOf(s.stft)] ELSE s
         IN  IF s1.phase # NoneM
             THEN Outcome(s1, LgdFromPhaseError(s1.phase), NoneM, 0,
                          IF derive THEN {"phase"} ELSE {})
             ELSE AfterPass(compute_stft(s1, AllFrames,
                                         [NoOverrides EXCEPT !.lgd = Some(TRUE)], j),
                            "lgd")
    ELSE Outcome(s, "ok", s.lgd, 0, {})

---------------------------------------------------------------------------
(* Spectrogram.__init__ *)

\* window arguments: the shared default array np.hanning(2048) of the
\* signature, an array the caller holds, an integer length, anything else
WindowArgs == {"default", "caller", "int", "other"}

\* a window branch without its final else: any other type passes
WindowCheck_no_else(window, norm_window) ==
    IF window = "int" /\ norm_window THEN "AttributeError" ELSE "ok"

\* the window branch of __init__: the exception it ends with, "ok" for none
WindowCheck(window, norm_window) ==
    IF window = "other" THEN "TypeError"
    ELSE IF window = "int" /\ norm_window
    THEN \* self.window /= ... with self.window never assigned
         "AttributeError"
    ELSE "ok"

\* The constructor, as the object it leaves, the attributes it has set, the
\* exception it raised and the window arrays it normalized in place.
Spectrogram(window, nf, filterbank, log, mul, add, stft, phase, lgd, norm_window, fft_size, arr) ==
    LET isArray == window \in {"default", "caller"}
        aWindow == IF isArray THEN {"window"} ELSE {}
        s1 == IF isArray THEN [Blank EXCEPT !.window = window] ELSE Blank
        arr1 == IF isArray /\ norm_window
                THEN [arr EXCEPT ![window] = TRUE] ELSE arr
        s2 == [s1 EXCEPT !.num_frames = nf,
                         !.f_stft = stft, !.f_phase = phase, !.f_lgd = lgd]
        a2 == aWindow \cup {"audio", "caches", "flags"}
        s3 == [s2 EXCEPT !.fft_size =
                   IF fft_size = None THEN WindowSize ELSE fft_size[1]]
        s4 == [s3 EXCEPT !.filterbank = filterbank, !.log = log,
                         !.mul = mul, !.add = add]
    IN  IF WindowCheck(window, norm_window) # "ok"
        THEN [s |-> Blank, attrs |-> {},
              err |-> WindowCheck(window, norm_window), arr |-> arr]
        ELSE IF ~isArray /\ fft_size = None
        THEN \* self.fft_size = self.window.size with self.window never assigned
             [s |-> s2, attrs |-> a2, err |-> "AttributeError", arr |-> arr1]
        ELSE [s |-> s4, attrs |-> a2 \cup {"fft_size", "params"},
              err |-> "ok", arr |-> arr1]

---------------------------------------------------------------------------
(* State and actions *)

ReadOps == {"read_stft", "read_spec", "read_phase", "read_lgd"}
SetterOps == {"set_filterbank", "set_log", "set_mul", "set_add"}

\* nothing has been returned by a read yet
NothingSeen == [m \in Matrices |-> NoneM]

\* the record of the latest operation: what it was called with, what it
\* did, and which matrices had been returned by a read when it started
Last(op, arg, r, seen0) ==
    [op |-> op, arg |-> arg, err |-> r.err, ret |-> r.ret,
     passes |-> r.passes, wrote |-> r.wrote,
     read |-> {m \in Matrices : seen0[m] # NoneM}]

\* the arbitrary contents of rows left unwritten: two values that differ,
\* drawn when an operation leaves such rows behind
JunkTags == {0, 1}

LeavesJunk(r) ==
    \E m \in r.wrote : r.s[m] # NoneM /\ r.s[m].filled < r.s[m].rows

JunkChoice(outcome) ==
    The({ IF r.passes > 0 /\ LeavesJunk(r) THEN JunkTags ELSE {0}
          : r \in {outcome} })

\* no frame is being followed through the transform
NoFrame == [fn |-> "none", signal |-> <<>>, phase |-> FALSE, lgd |-> FALSE, out |-> <<>>]

\* no whitening loop is being followed
NoWhiten == [spec |-> <<>>, floor |-> 0, P |-> <<>>, out |-> <<>>, done |-> FALSE]

Fresh ==
    /\ obj = "none"
    /\ attrs = {}
    /\ self = Blank
    /\ arrays = [default |-> FALSE, caller |-> FALSE]
    /\ seen = NothingSeen
    /\ calls = 0
    /\ frame = NoFrame
    /\ last = Last("start", None, Outcome(Blank, "ok", NoneM, 0, {}), NothingSeen)

Init == Fresh /\ whiten = NoWhiten

\* the arguments of one constructor call
CallArgs(W, NF, FB, LOG, MUL, ADD, FLAG, NORM, FFT) ==
    [window : W, nf : NF, filterbank : FB, log : LOG, mul : MUL, add : ADD,
     stft : FLAG, phase : FLAG, lgd : FLAG, norm_window : NORM, fft_size : FFT]

\* calls that pass the default window and leave filterbank, log, mul, add
\* and norm_window at their defaults
DefaultCalls ==
    CallArgs({"default"}, 0..MaxFrames, {NoFB}, {FALSE}, {1}, {0},
             BOOLEAN, {FALSE}, Opt(FftSizes))

ConstructFrom(Calls) ==
    /\ obj = "none"
    /\ \E a \in Calls :
      \E c \in {Spectrogram(a.window, a.nf, a.filterbank, a.log, a.mul, a.add,
                             a.stft, a.phase, a.lgd, a.norm_window, a.fft_size,
                             arrays)} :
            /\ obj' = IF c.err = "ok" THEN "ok" ELSE "failed"
            /\ attrs' = c.attrs
            /\ self' = c.s
            /\ arrays' = c.arr
            /\ seen' = NothingSeen
            /\ calls' = 0
            /\ UNCHANGED <<whiten, frame>>
            /\ last' = Last("init", a, Outcome(c.s, c.err, NoneM, 0, {}),
                            NothingSeen)

Construct == ConstructFrom(DefaultCalls)

\* a setter call: op names the setter, v the value assigned
Setter(op, v, s1) ==
    /\ obj = "ok"
    /\ self' = s1
    /\ seen' = NothingSeen
    /\ last' = Last(op, v, Outcome(s1, "ok", NoneM, 0, {}), seen)
    /\ UNCHANGED <<obj, attrs, arrays, calls, whiten, frame>>

SetFilterbank ==
    \E v \in {NoFB} \cup Filterbanks :
        Setter("set_filterbank", v, set_filterbank(self, v))

SetLog ==
    \E v \in BOOLEAN : Setter("set_log", v, set_log(self, v))

SetMul ==
    \E v \in MulValues : Setter("set_mul", v, set_mul(self, v))

SetAdd ==
    \E v \in AddValues : Setter("set_add", v, set_add(self, v))

\* the keyword overrides of one compute_stft call: none, or one keyword
ParamOverrides ==
    ({"filterbank"} \X Filterbanks) \cup ({"log"} \X BOOLEAN)
        \cup ({"mul"} \X MulValues) \cup ({"add"} \X AddValues)
FlagOverrides == {"stft", "phase", "lgd"} \X BOOLEAN
FftOverrides == {"fft_size"} \X FftSizes

OneOverride(Choices) ==
    {NoOverrides} \cup {[NoOverrides EXCEPT ![c[1]] = Some(c[2])] : c \in Choices}

\* the general specification computes over all frames
MainIndices(n) == {AllFrames}

\* a compute_stft call with an index from Sel and keywords from Ovr
ComputeStftCall(Sel, Ovr) ==
    /\ obj = "ok"
    /\ \E index \in Sel, o \in Ovr :
      \E j \in JunkChoice(compute_stft(self, index, o, 0)) :
      \E r \in {compute_stft(self, index, o, j)} :
            /\ self' = r.s
            /\ seen' = NothingSeen
            /\ last' = Last("compute_stft", o, r, seen)
    /\ UNCHANGED <<obj, attrs, arrays, whiten, frame>>

ComputeStftOn(Sel, Ovr) ==
    ComputeStftCall(Sel, Ovr) /\ UNCHANGED calls

\* the same, counted against MaxCalls
ComputeStftCounted(Sel, Ovr) ==
    /\ calls < MaxCalls
    /\ ComputeStftCall(Sel, Ovr)
    /\ calls' = calls + 1

ComputeStft ==
    ComputeStftOn(MainIndices(self.num_frames),
                  OneOverride(ParamOverrides \cup FlagOverrides))

\* a read of the property m; a test that watches the reads records in seen
\* the matrix each one returned
Read(op, m, r, watched) ==
    /\ obj = "ok"
    /\ self' = r.s
    /\ seen' = IF watched /\ r.err = "ok" THEN [seen EXCEPT ![m] = r.ret] ELSE seen
    /\ last' = Last(op, m, r, seen)
    /\ UNCHANGED <<obj, attrs, arrays, calls, whiten, frame>>

ReadStft ==
    \E j \in JunkChoice(read_stft(self, 0)) :
      \E r \in {read_stft(self, j)} : Read("read_stft", "stft", r, FALSE)

ReadSpec ==
    \E j \in JunkChoice(read_spec(self, 0)) :
      \E r \in {read_spec(self, j)} : Read("read_spec", "spec", r, FALSE)

ReadPhase ==
    \E j \in JunkChoice(read_phase(self, 0)) :
      \E r \in {read_phase(self, j)} : Read("read_phase", "phase", r, FALSE)

ReadLgd ==
    \E j \in JunkChoice(read_lgd(self, 0)) :
      \E r \in {read_lgd(self, j)} : Read("read_lgd", "lgd", r, FALSE)

Next ==
    \/ Construct
    \/ SetFilterbank
    \/ SetLog
    \/ SetMul
    \/ SetAdd
    \/ ComputeStft
    \/ ReadStft
    \/ ReadSpec
    \/ ReadPhase
    \/ ReadLgd

Spec == Init /\ [][Next]_vars

---------------------------------------------------------------------------
(* The same program under a test that watches the reads: seen holds, per   *)
(* matrix, what the latest read returned since the last call that was not  *)
(* a read.                                                                 *)

ReadStftWatched ==
    \E j \in JunkChoice(read_stft(self, 0)) :
      \E r \in {read_stft(self, j)} : Read("read_stft", "stft", r, TRUE)

ReadSpecWatched ==
    \E j \in JunkChoice(read_spec(self, 0)) :
      \E r \in {read_spec(self, j)} : Read("read_spec", "spec", r, TRUE)

ReadPhaseWatched ==
    \E j \in JunkChoice(read_phase(self, 0)) :
      \E r \in {read_phase(self, j)} : Read("read_phase", "phase", r, TRUE)

ReadLgdWatched ==
    \E j \in JunkChoice(read_lgd(self, 0)) :
      \E r \in {read_lgd(self, j)} : Read("read_lgd", "lgd", r, TRUE)

\* calls that also leave the retention flags at their defaults
PlainCalls ==
    CallArgs({"default"}, 0..MaxFrames, {NoFB}, {FALSE}, {1}, {0},
             {FALSE}, {FALSE}, Opt(FftSizes))

ConstructPlain == ConstructFrom(PlainCalls)

ComputeStftPlain == ComputeStftOn({AllFrames}, {NoOverrides})

NextWatched ==
    \/ ConstructPlain
    \/ SetFilterbank
    \/ SetLog
    \/ SetMul
    \/ SetAdd
    \/ ComputeStftPlain
    \/ ReadStftWatched
    \/ ReadSpecWatched
    \/ ReadPhaseWatched
    \/ ReadLgdWatched

SpecWatched == Init /\ [][NextWatched]_vars

---------------------------------------------------------------------------
(* The batch entry point with every keyword override, on containers built  *)
(* with default arguments, and the reads.                                  *)

\* all frames, and a slice that stops before it starts
OverrideIndices(n) == {AllFrames, Slice(MaxFrames, 0, 1)}

ComputeStftAnyOverride ==
    ComputeStftCounted(OverrideIndices(self.num_frames),
                  OneOverride(ParamOverrides \cup FlagOverrides \cup FftOverrides))

NextCompute ==
    \/ ConstructPlain
    \/ ComputeStftAnyOverride
    \/ ReadStft
    \/ ReadSpec
    \/ ReadPhase
    \/ ReadLgd

SpecCompute == Init /\ [][NextCompute]_vars

---------------------------------------------------------------------------
(* The batch entry point with every frame selection, and the reads.        *)

ComputeStftAnyIndex ==
    ComputeStftOn(Indices(self.num_frames), {NoOverrides})

NextRows ==
    \/ ConstructPlain
    \/ ComputeStftAnyIndex
    \/ ReadStft
    \/ ReadSpec
    \/ ReadPhase
    \/ ReadLgd

SpecRows == Init /\ [][NextRows]_vars

---------------------------------------------------------------------------
(* Construction with every kind of argument, and the reads that follow.    *)

AnyCalls ==
    CallArgs(WindowArgs, 0..MaxFrames, {NoFB} \cup Filterbanks, BOOLEAN,
             MulValues, AddValues, {FALSE}, BOOLEAN, Opt(FftSizes))

ConstructAny == ConstructFrom(AnyCalls)

NextInit ==
    \/ ConstructAny
    \/ ReadStft
    \/ ReadSpec
    \/ ReadPhase
    \/ ReadLgd

SpecInit == Init /\ [][NextInit]_vars

---------------------------------------------------------------------------
(* The whitening loop of aw (lines 504-512) on numbers: one bin of a       *)
(* magnitude spectrogram, frame by frame.  Magnitudes and the floor are    *)
(* whole multiples of Unit, and mem_coeff is one half, so that every       *)
(* decayed peak is a whole number.                                         *)

Unit == 2 ^ MaxFrames

\* mem_coeff * p
Decayed(p) == p \div 2

\* np.maximum(x1, x2)
Maximum(x1, x2) == IF x1 >= x2 THEN x1 ELSE x2

\* np.maximum(x1, x2, out): the third positional argument of the ufunc is
\* the array the result is written to, and the call returns it
MaximumOut(x1, x2, out) == Maximum(x1, x2)

\* P[1..f] as the loop leaves it (frames are numbered from 1 here)
RECURSIVE Peaks(_, _, _)
Peaks(spec, floor, f) ==
    IF f = 0 THEN <<>>
    ELSE The({ Append(prev,
                      IF f > 1
                      THEN MaximumOut(spec[f], floor, Decayed(prev[f - 1]))
                      ELSE Maximum(spec[f], floor))
               : prev \in {Peaks(spec, floor, f - 1)} })

\* x / p, kept as the pair of dividend and divisor
Quotient(x, p) == <<x, p>>

\* the columns the loop is run on
WhitenInputs ==
    UNION {[1..n -> {m * Unit : m \in 0..MaxMagnitude}] : n \in 1..MaxFrames}

InitPeaks ==
    /\ Fresh
    /\ \E spec \in WhitenInputs, floor \in 1..MaxFloor :
          whiten = [NoWhiten EXCEPT !.spec = spec, !.floor = floor * Unit]

\* lines 504-512: the loop over the frames, then the division
WhitenLoop ==
    /\ ~whiten.done
    /\ \E P \in {Peaks(whiten.spec, whiten.floor, Len(whiten.spec))} :
          whiten' = [whiten EXCEPT
                        !.P = P,
                        !.out = [f \in 1..Len(P) |->
                                    Quotient(whiten.spec[f], P[f])],
                        !.done = TRUE]
    /\ UNCHANGED <<obj, attrs, self, arrays, last, seen, calls, frame>>

NextPeaks == WhitenLoop

SpecPeaks == InitPeaks /\ [][NextPeaks]_vars

---------------------------------------------------------------------------
(* aw on the container.  It reads self.fps and self.frames, which the      *)
(* class never defines: a caller can get past them only by assigning both  *)
(* on the instance.  A cached magnitude spectrogram counts in its field aw *)
(* how often it was divided by a peak matrix.                              *)

\* "self.spec /= P": the array is divided in place, then the result is
\* assigned to the property spec, which has no setter
DivideInPlace(s) ==
    Outcome([s EXCEPT !.spec.aw = @ + 1], "AttributeError", NoneM, 0, {})

\* aw(floor, relaxation) on the object s with the instance attributes at
aw(s, at, j) ==
    IF "fps" \notin at
    THEN \* line 503: self.fps
         Outcome(s, "AttributeError", NoneM, 0, {})
    ELSE The({ IF r.err # "ok"
               THEN \* line 504: the read of self.spec raised
                    Outcome(r.s, r.err, NoneM, r.passes, r.wrote)
               ELSE IF "frames" \notin at
               THEN \* line 506: self.frames
                    Outcome(r.s, "AttributeError", NoneM, r.passes, r.wrote)
               ELSE IF s.num_frames > r.s.spec.rows
               THEN \* P[f] with f beyond the rows of spec
                    Outcome(r.s, "IndexError", NoneM, r.passes, r.wrote)
               ELSE The({ Outcome(d.s, d.err, NoneM, r.passes, r.wrote)
                          : d \in {DivideInPlace(r.s)} })
               : r \in {read_spec(s, j)} })

\* the caller assigns fps and frames (the frame count of the audio)
AssignFps ==
    /\ obj = "ok"
    /\ "fps" \notin attrs
    /\ attrs' = attrs \cup {"fps", "frames"}
    /\ last' = Last("assign", None, Outcome(self, "ok", NoneM, 0, {}), seen)
    /\ UNCHANGED <<obj, self, arrays, seen, calls, whiten, frame>>

Aw ==
    /\ obj = "ok"
    /\ IF self.spec = NoneM THEN TRUE ELSE self.spec.aw < MaxWhiten
    /\ \E j \in JunkChoice(aw(self, attrs, 0)) :
      \E r \in {aw(self, attrs, j)} :
          /\ self' = r.s
          /\ seen' = NothingSeen
          /\ last' = Last("aw", None, r, seen)
    /\ UNCHANGED <<obj, attrs, arrays, calls, whiten, frame>>

NextAw ==
    \/ ConstructPlain
    \/ AssignFps
    \/ Aw
    \/ SetLog
    \/ ReadStft
    \/ ReadSpec

SpecAw == Init /\ [][NextAw]_vars

---------------------------------------------------------------------------
(* FilteredSpectrogram and LogarithmicFilteredSpectrogram.  Their          *)
(* constructors take *args and **kwargs: they pop their own arguments from *)
(* the keywords only and hand everything else to the base constructor, so  *)
(* a call is modelled with the values it supplies for filterbank, log, mul *)
(* and add (the fourth to seventh parameters of the base signature) and    *)
(* the number of them it passes by position.                               *)

\* the filterbank module's LogFilter(fft_bins=...), which the repository
\* keeps outside this file: a matrix with fft_bins rows (and, here, another
\* number of columns than the filterbanks a caller supplies)
LogFilter(bins) == [kind |-> "ndarray", rows |-> bins, cols |-> 2]

\* position of a parameter among filterbank, log, mul, add
ParamPos(name) ==
    CASE name = "filterbank" -> 1 [] name = "log" -> 2
      [] name = "mul" -> 3 [] OTHER -> 4

\* the value a call passes for a parameter by position / by keyword
Positional(a, name) == IF ParamPos(name) <= a.npos THEN a[name] ELSE None
Keyword(a, name) == IF ParamPos(name) > a.npos THEN a[name] ELSE None

\* kwargs.pop(name, default)
Pop(a, name, default) ==
    IF Keyword(a, name) # None THEN Keyword(a, name)[1] ELSE default

\* what reaches the base constructor for a parameter the subclass popped:
\* the positional value, else the base signature's default
Passed(a, name, default) ==
    IF Positional(a, name) # None THEN Positional(a, name)[1] ELSE default

VariantCalls ==
    {a \in [window : WindowArgs, nf : 0..MaxFrames, fft_size : Opt(FftSizes),
            norm_window : BOOLEAN, filterbank : Opt(Filterbanks),
            log : Opt(BOOLEAN), mul : Opt(MulValues), add : Opt(AddValues),
            npos : 0..4] :
        \A name \in {"filterbank", "log", "mul", "add"} :
            ParamPos(name) <= a.npos => a[name] # None}

\* FilteredSpectrogram.__init__ after LogarithmicFilteredSpectrogram.__init__
\* has popped mul and add; c is what the base constructor left
FilteredInit(a, c) ==
    IF c.err # "ok" THEN c
    ELSE [c EXCEPT !.s = set_filterbank(c.s, Pop(a, "filterbank",
                                                 LogFilter(fft_bins(c.s))))]

\* LogarithmicFilteredSpectrogram.__init__
LogarithmicFilteredSpectrogram(a, arr) ==
    The({ IF c.err # "ok" THEN c
          ELSE [c EXCEPT !.s = set_add(set_mul(set_log(c.s, TRUE),
                                               Pop(a, "mul", 5)),
                                       Pop(a, "add", 1))]
          : c \in {FilteredInit(a,
                      Spectrogram(a.window, a.nf, Passed(a, "filterbank", NoFB),
                                  IF a.log # None THEN a.log[1] ELSE FALSE,
                                  Passed(a, "mul", 1), Passed(a, "add", 0),
                                  FALSE, FALSE, FALSE, a.norm_window,
                                  a.fft_size, arr))} })

ConstructLFS ==
    /\ obj = "none"
    /\ \E a \in VariantCalls :
      \E c \in {LogarithmicFilteredSpectrogram(a, arrays)} :
            /\ obj' = IF c.err = "ok" THEN "ok" ELSE "failed"
            /\ attrs' = c.attrs
            /\ self' = c.s
            /\ arrays' = c.arr
            /\ seen' = NothingSeen
            /\ last' = Last("init_lfs", a, Outcome(c.s, c.err, NoneM, 0, {}),
                            NothingSeen)
    /\ UNCHANGED <<calls, whiten, frame>>

NextVariant ==
    \/ ConstructLFS
    \/ ReadStft
    \/ ReadSpec
    \/ ReadPhase
    \/ ReadLgd

SpecVariant == Init /\ [][NextVariant]_vars

---------------------------------------------------------------------------
(* The properties num_frames and bins: both read self.spec and return one  *)
(* dimension of its shape.                                                 *)

\* np.shape(self.spec)[0] or [1], after the read of self.spec
ShapeOf(pass, dim) ==
    The({ Outcome(r.s, r.err,
                  IF r.err = "ok" THEN [value |-> r.s.spec[dim]] ELSE NoneM,
                  r.passes, r.wrote)
          : r \in {pass} })

\* a count of the rows that does not keep the matrix it computed
num_frames_uncached(s, j) ==
    The({ Outcome([r.s EXCEPT !.spec = s.spec], r.err, r.ret, r.passes,
                  r.wrote \ {"spec"})
          : r \in {ShapeOf(read_spec(s, j), "rows")} })

num_frames(s, j) == ShapeOf(read_spec(s, j), "rows")

bins(s, j) == ShapeOf(read_spec(s, j), "cols")

ReadNumFrames ==
    \E j \in JunkChoice(num_frames(self, 0)) :
      \E r \in {num_frames(self, j)} : Read("read_num_frames", "spec", r, FALSE)

ReadBins ==
    \E j \in JunkChoice(bins(self, 0)) :
      \E r \in {bins(self, j)} : Read("read_bins", "spec", r, FALSE)

\* the properties that depend on the magnitude spectrogram
MagnitudeOps == {"read_spec", "read_num_frames", "read_bins"}

NextShape ==
    \/ Construct
    \/ SetFilterbank
    \/ SetLog
    \/ ComputeStft
    \/ ReadStft
    \/ ReadSpecWatched
    \/ ReadNumFrames
    \/ ReadBins

SpecShape == Init /\ [][NextShape]_vars

---------------------------------------------------------------------------
(* One windowed frame on its way to the DFT (lines 346-356 of compute_stft *)
(* and lines 72-81 of the function stft): the samples of the frame after   *)
(* the multiplication with the window, and what is handed to fft.fft.      *)

\* the windowed frames followed: window-size sequences of two sample values
Signals == [1..WindowSize -> {0, 1}]

\* np.append(signal[centre:], signal[:centre])
CircularShift(signal, centre) ==
    SubSeq(signal, centre + 1, Len(signal)) \o SubSeq(signal, 1, centre)

\* lines 350-354 of compute_stft, with centre = self.window.size / 2
PassFrame(s, signal) ==
    IF ShiftFrames(s) THEN CircularShift(signal, WindowSize \div 2) ELSE signal

\* lines 75-79 of the function stft, whose only flag is phase
stft_frame(signal, phase) ==
    IF phase THEN CircularShift(signal, WindowSize \div 2) ELSE signal

\* a compute_stft call over all frames, following its first frame
ComputeStftFrame ==
    /\ obj = "ok"
    /\ calls < MaxCalls
    /\ calls' = calls + 1
    /\ \E o \in OneOverride(FlagOverrides), signal \in Signals :
      \E j \in JunkChoice(compute_stft(self, AllFrames, o, 0)) :
      \E r \in {compute_stft(self, AllFrames, o, j)} :
      \E s2 \in {SetFlags(ApplyOverrides(self, o), o)} :
            /\ self' = r.s
            /\ seen' = NothingSeen
            /\ last' = Last("compute_stft", o, r, seen)
            /\ frame' = IF s2.window # "unset" /\ ProviderItems(s2, AllFrames) > 0
                        THEN [fn |-> "compute_stft", signal |-> signal,
                              phase |-> s2.f_phase, lgd |-> s2.f_lgd,
                              out |-> PassFrame(s2, signal)]
                        ELSE NoFrame
    /\ UNCHANGED <<obj, attrs, arrays, whiten>>

\* a call of the function stft, following one frame
StftFunction ==
    /\ \E signal \in Signals, phase \in BOOLEAN :
          frame' = [fn |-> "stft", signal |-> signal, phase |-> phase,
                    lgd |-> FALSE, out |-> stft_frame(signal, phase)]
    /\ UNCHANGED <<obj, attrs, self, arrays, last, seen, calls, whiten>>

NextFrame ==
    \/ ConstructPlain
    \/ ComputeStftFrame
    \/ StftFunction

SpecFrame == Init /\ [][NextFrame]_vars

---------------------------------------------------------------------------
(* Several containers constructed one after another in one process: the    *)
(* default window array of the signature and the array the caller holds    *)
(* outlive each container, and arrays records which of them a constructor  *)
(* has normalized in place.                                                *)

\* the construction of a further container, which takes the place of the
\* one followed so far
ConstructNext ==
    /\ obj # "none"
    /\ \E a \in AnyCalls :
      \E c \in {Spectrogram(a.window, a.nf, a.filterbank, a.log, a.mul, a.add,
                             a.stft, a.phase, a.lgd, a.norm_window, a.fft_size,
                             arrays)} :
            /\ obj' = IF c.err = "ok" THEN "ok" ELSE "failed"
            /\ attrs' = c.attrs
            /\ self' = c.s
            /\ arrays' = c.arr
            /\ seen' = NothingSeen
            /\ calls' = 0
            /\ last' = Last("init", a, Outcome(c.s, c.err, NoneM, 0, {}),
                            NothingSeen)
    /\ UNCHANGED <<whiten, frame>>

NextWindows ==
    \/ ConstructAny
    \/ ConstructNext

SpecWindows == Init /\ [][NextWindows]_vars

---------------------------------------------------------------------------
(* Claims *)

\* C1: a call of the filterbank, log, mul or add setter, in any reachable
\* state, leaves spec Absent and leaves stft, phase and lgd exactly as they
\* were (same presence, same content).
C1_SetterInvalidatesSpecOnly ==
    [][last'.op \in SetterOps =>
          /\ self'.spec = NoneM
          /\ self'.stft = self.stft
          /\ self'.phase = self.phase
          /\ self'.lgd = self.lgd]_vars

\* C1 witness: a setter has run on a container whose stft and phase were
\* cached; they are still there and spec is gone.
C1_Witness ==
    /\ last.op = "set_log"
    /\ self.spec = NoneM
    /\ self.stft # NoneM /\ self.stft.filled = self.stft.rows /\ self.stft.rows > 0
    /\ self.phase # NoneM

\* the read accessor of a matrix
ReadOpOf(m) ==
    CASE m = "stft" -> "read_stft" [] m = "spec" -> "read_spec"
      [] m = "phase" -> "read_phase" [] OTHER -> "read_lgd"

\* C2: once a read of spec, phase or stft has returned the matrix, a further
\* read of it, with only reads in between, returns the identical matrix and
\* runs no derivation pass.
C2_RepeatedReadIdentical ==
    [][\A m \in {"stft", "spec", "phase"} :
          (last'.op = ReadOpOf(m) /\ seen[m] # NoneM) =>
              /\ last'.err = "ok"
              /\ last'.ret = seen[m]
              /\ last'.passes = 0]_vars

\* C3: after spec has been read, setting log to true makes the next read
\* of spec recompute it with logarithmic compression applied, and a phase
\* matrix read before the mutation stays Present with the content it had.
C3_LogForcesRecompute ==
    [][(/\ last.op = "set_log" /\ last.arg = TRUE
        /\ "spec" \in last.read
        /\ last'.op = "read_spec") =>
          /\ last'.err = "ok"
          /\ "spec" \in last'.wrote
          /\ last'.ret.log = TRUE
          /\ ("phase" \in last.read =>
                 /\ self.phase # NoneM
                 /\ self'.phase = self.phase)]_vars

\* C3, the part about the phase matrix as the claim words it: the next read
\* of spec neither recomputes nor replaces the phase matrix.
C3_PhaseNotRecomputed ==
    [][(/\ last.op = "set_log" /\ last.arg = TRUE
        /\ {"spec", "phase"} \subseteq last.read
        /\ last'.op = "read_spec") =>
          "phase" \notin last'.wrote]_vars

\* C4: on a constructed container a read of stft, spec, phase or lgd never
\* fails and returns the matrix, which is Present afterwards.
C4_ReadsSucceed ==
    (obj = "ok" /\ last.op \in ReadOps) =>
        /\ last.err = "ok"
        /\ last.ret # NoneM
        /\ self[last.arg] = last.ret

\* C5: with stft Present, a read of an Absent spec, phase or lgd derives
\* the matrix from the cached transform: it becomes Present, no derivation
\* pass runs and stft stays as it was.
C5_DerivedFromCachedStft ==
    [][\A m \in {"spec", "phase", "lgd"} :
          (last'.op = ReadOpOf(m) /\ self.stft # NoneM /\ self[m] = NoneM) =>
              /\ last'.err = "ok"
              /\ self'[m] # NoneM
              /\ last'.passes = 0
              /\ self'.stft = self.stft]_vars

\* the part of C5 about the pass and the cached transform alone
C5_NoPassStftKept ==
    [][\A m \in {"spec", "phase", "lgd"} :
          (last'.op = ReadOpOf(m) /\ self.stft # NoneM /\ self[m] = NoneM) =>
              /\ last'.passes = 0
              /\ self'.stft = self.stft]_vars

\* the matrices whose retention flag is set
Retained(s) ==
    (IF s.f_stft THEN {"stft"} ELSE {}) \cup (IF s.f_phase THEN {"phase"} ELSE {})
        \cup (IF s.f_lgd THEN {"lgd"} ELSE {})

\* C6 as stated: a read of an Absent matrix that finds stft Absent runs one
\* pass that populates exactly the matrix read and the matrices already
\* retained; every other matrix keeps its state and content.
C6_PassPopulatesExactly ==
    [][\A m \in Matrices :
          (last'.op = ReadOpOf(m) /\ self[m] = NoneM /\ self.stft = NoneM) =>
              /\ last'.passes = 1
              /\ \A x \in Matrices :
                    IF x \in {m} \cup Retained(self)
                    THEN self'[x] # NoneM
                    ELSE self'[x] = self[x]]_vars

\* C6 amended: a read of an Absent matrix that finds stft Absent (for lgd:
\* stft and phase Absent) runs one pass that allocates the matrix read, the
\* magnitude spectrogram and the matrices already retained; every other
\* matrix keeps its state and content.
C6_PassAllocatesSpecToo ==
    [][\A m \in Matrices :
          (/\ last'.op = ReadOpOf(m) /\ self[m] = NoneM /\ self.stft = NoneM
           /\ (m = "lgd" => self.phase = NoneM)) =>
              /\ last'.passes = 1
              /\ last'.wrote = {m, "spec"} \cup Retained(self)
              /\ \A x \in Matrices :
                    IF x \in last'.wrote
                    THEN self'[x] # NoneM
                    ELSE self'[x] = self[x]]_vars

\* C6 witness: a read of phase ran a pass on a container without stft; spec
\* and phase are Present, stft and lgd are still Absent.
C6_Witness ==
    /\ last.op = "read_phase" /\ last.passes = 1 /\ last.err = "ok"
    /\ last.wrote = {"spec", "phase"}
    /\ self.spec # NoneM /\ self.phase # NoneM /\ self.phase.rows > 0
    /\ self.stft = NoneM /\ self.lgd = NoneM

\* C7 as stated: a compute_stft call leaves the stft, phase and lgd
\* retention flags and fft_size as they were before the call.
C7_FlagsAndFftSizeRestored ==
    [][last'.op = "compute_stft" =>
          /\ self'.f_stft = self.f_stft
          /\ self'.f_phase = self.f_phase
          /\ self'.f_lgd = self.f_lgd
          /\ self'.fft_size = self.fft_size]_vars

\* the value a keyword override stores, or the value kept
Stored(override, kept) == IF override # None THEN override[1] ELSE kept

\* C7 amended: a compute_stft call stores an override of filterbank, log,
\* mul or add in the container, never changes fft_size, and sets a
\* retention flag for good when the keyword is true and the call gets as
\* far as allocating its matrices; otherwise the flag stays as it was.
C7_TrueFlagOverridesStick ==
    [][last'.op = "compute_stft" =>
          LET o == last'.arg
              allocated == last'.wrote # {}
          IN  /\ self'.fft_size = self.fft_size
              /\ self'.filterbank = Stored(o.filterbank, self.filterbank)
              /\ self'.log = Stored(o.log, self.log)
              /\ self'.mul = Stored(o.mul, self.mul)
              /\ self'.add = Stored(o.add, self.add)
              /\ self'.f_stft = (self.f_stft \/ (allocated /\ o.stft = Some(TRUE)))
              /\ self'.f_phase = (self.f_phase \/ (allocated /\ o.phase = Some(TRUE)))
              /\ self'.f_lgd = (self.f_lgd \/ (allocated /\ o.lgd = Some(TRUE)))]_vars

\* C7 witness: compute_stft(stft=True) has run; the flag is set, the raw
\* transform is kept, and the container is otherwise at its defaults.
C7_Witness ==
    /\ last.op = "compute_stft" /\ last.arg.stft = Some(TRUE) /\ last.err = "ok"
    /\ self.f_stft /\ ~self.f_phase /\ ~self.f_lgd
    /\ self.stft # NoneM /\ self.stft.rows > 0

\* the frame count the selection stands for
SelectedFrames(index, n) ==
    CASE index.kind = "slice" ->
            (index.stop - index.start + index.step - 1) \div index.step
      [] index.kind = "int" -> 1
      [] OTHER -> n

\* C8: compute_stft allocates 1 row for a single index, ceil((stop - start)
\* / step) rows for a slice and the provider's frame count for no selection.
C8_RowsAllocated ==
    (/\ last.op = "compute_stft" /\ "spec" \in last.wrote
     /\ self.spec.sel.stop >= self.spec.sel.start) =>
        self.spec.rows = SelectedFrames(self.spec.sel, self.num_frames)

\* C9: construction with an integer window length succeeds, the window is
\* set, fft_size defaults to that length, and reads of spec then work.
C9_IntegerWindow ==
    /\ (last.op = "init" /\ last.arg.window = "int") =>
          /\ last.err = "ok"
          /\ self.window # "unset"
          /\ (last.arg.fft_size = None => self.fft_size = WindowSize)
    /\ (obj = "ok" /\ last.op = "read_spec") => last.err = "ok"

\* C10: construction with a window that is neither an integer nor an array
\* raises TypeError before anything is set: no attribute, no cache, no
\* parameter, no normalized window array, no frame processed.
C10_InvalidWindowRejected ==
    (last.op = "init" /\ last.arg.window = "other") =>
        /\ last.err = "TypeError"
        /\ obj = "failed"
        /\ attrs = {}
        /\ self = Blank
        /\ arrays = [default |-> FALSE, caller |-> FALSE]
        /\ last.passes = 0 /\ last.wrote = {}

\* C10 witness: such a call was made, with norm_window and an fft_size.
C10_Witness ==
    /\ last.op = "init" /\ last.arg.window = "other"
    /\ last.arg.norm_window /\ last.arg.fft_size # None
    /\ last.err = "TypeError"

\* the number of rows a filterbank must have on the container a call builds
CallFftBins(a) ==
    (IF a.fft_size = None THEN WindowSize ELSE a.fft_size[1]) \div 2

\* C11: installing a filterbank whose row count differs from fft_bins, at
\* construction, through the filterbank setter or as a compute_stft
\* override, raises the shape-mismatch error in that call, and no read of
\* spec raises it later.
C11_ShapeMismatchRaisedAtOnce ==
    /\ (/\ last.op = "init"
        /\ last.arg.filterbank # NoFB
        /\ last.arg.filterbank.rows # CallFftBins(last.arg)) =>
            last.err = "ValueError"
    /\ (/\ last.op = "set_filterbank"
        /\ last.arg # NoFB
        /\ last.arg.rows # fft_bins(self)) =>
            last.err = "ValueError"
    /\ (/\ last.op = "compute_stft"
        /\ last.arg.filterbank # None
        /\ last.arg.filterbank[1].rows # fft_bins(self)) =>
            last.err = "ValueError"
    /\ (last.op = "read_spec") => last.err # "ValueError"

\* C12: adaptive whitening divides by the running peak P with
\* P[0] = max(spec[0], floor) and P[f] = max(spec[f], floor, decay * P[f-1])
\* for every later frame; a frame below the decayed peak is divided by the
\* decayed peak.
C12_RunningPeak ==
    whiten.done =>
        \A f \in 1..Len(whiten.spec) :
            /\ whiten.P[f] =
                  IF f = 1 THEN Maximum(whiten.spec[f], whiten.floor)
                  ELSE Maximum(Maximum(whiten.spec[f], whiten.floor),
                               Decayed(whiten.P[f - 1]))
            /\ whiten.out[f] = Quotient(whiten.spec[f], whiten.P[f])

\* C13: aw on a container whose spec is materialized completes without
\* error, divides the cached spec in place (it stays Present, and a later
\* read returns the whitened matrix without recomputation), and leaves
\* stft, phase, lgd and the parameters filterbank, log, mul, add unchanged.
C13_WhitensInPlace ==
    [][(last'.op = "aw" /\ self.spec # NoneM) =>
          /\ last'.err = "ok"
          /\ self'.spec = [self.spec EXCEPT !.aw = @ + 1]
          /\ last'.passes = 0
          /\ \A x \in {"stft", "phase", "lgd", "filterbank", "log", "mul", "add"} :
                self'[x] = self[x]]_vars

\* the part of C13 that does not depend on how aw ends: the other matrices
\* and the parameters stay, and a materialized spec is not recomputed
C13_OthersKept ==
    [][(last'.op = "aw" /\ self.spec # NoneM) =>
          /\ last'.passes = 0
          /\ self'.spec \in {self.spec, [self.spec EXCEPT !.aw = @ + 1]}
          /\ \A x \in {"stft", "phase", "lgd", "filterbank", "log", "mul", "add"} :
                self'[x] = self[x]]_vars

\* C14: directly after construction of the logarithmic-filtered variant the
\* container has a filterbank installed (the supplied one, or a default one
\* when none is supplied), log is true, mul and add are the supplied values
\* or the defaults 5 and 1, and all four derived matrices are Absent.
C14_VariantConfigured ==
    (last.op = "init_lfs" /\ obj = "ok") =>
        /\ self.filterbank =
              IF last.arg.filterbank # None THEN last.arg.filterbank[1]
              ELSE LogFilter(fft_bins(self))
        /\ self.log = TRUE
        /\ self.mul = IF last.arg.mul # None THEN last.arg.mul[1] ELSE 5
        /\ self.add = IF last.arg.add # None THEN last.arg.add[1] ELSE 1
        /\ Present(self) = {}

\* C14 for calls that pass filterbank, log, mul and add by keyword only
C14_KeywordCallsConfigured ==
    (last.op = "init_lfs" /\ obj = "ok" /\ last.arg.npos = 0) =>
        /\ self.filterbank =
              IF last.arg.filterbank # None THEN last.arg.filterbank[1]
              ELSE LogFilter(fft_bins(self))
        /\ self.log = TRUE
        /\ self.mul = IF last.arg.mul # None THEN last.arg.mul[1] ELSE 5
        /\ self.add = IF last.arg.add # None THEN last.arg.add[1] ELSE 1
        /\ Present(self) = {}

\* C15: once spec, num_frames or bins has been read, at least one of stft
\* and spec is Present in every later state, also after a mutation of
\* filterbank, log, mul or add; here for the state the next call leaves.
C15_OneCachePresent ==
    [][(last.op \in MagnitudeOps) =>
          (self'.spec # NoneM \/ self'.stft # NoneM)]_vars

\* C15 amended: a read of spec, num_frames or bins leaves spec Present, and
\* a Present spec becomes Absent only by a mutation of filterbank, log,
\* mul or add, which leaves stft as it was.
C15_SpecPresentUntilMutation ==
    [][/\ (last'.op \in MagnitudeOps) => self'.spec # NoneM
       /\ (self.spec # NoneM /\ self'.spec = NoneM) =>
             /\ last'.op \in SetterOps
             /\ self'.stft = self.stft]_vars

\* C15 witness: spec was read without the transform being kept, and a
\* setter has since left both caches Absent.
C15_Witness ==
    /\ last.op = "set_log" /\ "spec" \in last.read
    /\ self.spec = NoneM /\ self.stft = NoneM

\* C16: every Present stft, phase and lgd matrix has fft_bins = fft_size >> 1
\* columns, and a Present spec has the installed filterbank's output columns,
\* or fft_bins columns when no filterbank is installed.
C16_ColumnCounts ==
    obj = "ok" =>
      /\ \A m \in {"stft", "phase", "lgd"} :
            self[m] # NoneM => self[m].cols = fft_bins(self)
      /\ self.spec # NoneM =>
            self.spec.cols = IF self.filterbank # NoFB
                             THEN self.filterbank.cols
                             ELSE fft_bins(self)

\* C16, transform part: the stft, phase and lgd matrices have fft_bins columns.
C16_TransformColumns ==
    obj = "ok" =>
      \A m \in {"stft", "phase", "lgd"} :
          self[m] # NoneM => self[m].cols = fft_bins(self)

\* the frame rotated left by k places, position by position
RotatedLeft(signal, k) ==
    [i \in 1..Len(signal) |-> signal[((i - 1 + k) % Len(signal)) + 1]]

\* C17: the windowed frame handed to the transform is the frame circularly
\* shifted left by window_size / 2 exactly when the phase or the local
\* group delay flag is enabled for the pass, and the frame itself otherwise.
C17_ShiftIffPhaseOrLgd ==
    frame.fn # "none" =>
        frame.out = IF frame.phase \/ frame.lgd
                    THEN RotatedLeft(frame.signal, WindowSize \div 2)
                    ELSE frame.signal

\* C17 witness: a pass with only the local group delay flag enabled has
\* shifted a frame that the shift changes.
C17_Witness ==
    /\ frame.fn = "compute_stft"
    /\ frame.lgd /\ ~frame.phase
    /\ frame.out # frame.signal
    /\ frame.out = RotatedLeft(frame.signal, WindowSize \div 2)

\* C17 witness: a pass with neither flag enabled has left a frame unshifted.
C17_UnshiftedReached ==
    /\ frame.fn = "compute_stft"
    /\ ~frame.lgd /\ ~frame.phase
    /\ frame.out = frame.signal
    /\ frame.signal # RotatedLeft(frame.signal, WindowSize \div 2)

\* C18: a read of lgd yields, for every frame, the differences
\* unwrapped[bin] - unwrapped[bin+1] of the frame's unwrapped phase, on the
\* pass and on the derivation from a cached phase or transform alike; here
\* the part that the read returns a matrix with every frame's row written.
C18_LgdReadYieldsDifferences ==
    [][(last'.op = "read_lgd" /\ self.num_frames > 0) =>
          /\ last'.err = "ok"
          /\ last'.ret # NoneM
          /\ last'.ret.filled = last'.ret.rows]_vars

\* C18, what the code does: a read of lgd on a container with frames either
\* raises or returns a matrix an earlier failed pass left with unwritten rows.
C18_LgdReadNeverYields ==
    [][(last'.op = "read_lgd" /\ self.num_frames > 0) =>
          \/ last'.err # "ok"
          \/ last'.ret.filled < last'.ret.rows]_vars

\* C19: whenever spec is Present, it was computed with the current values
\* of filterbank, log, mul and add.
C19_SpecMatchesParameters ==
    (obj = "ok" /\ self.spec # NoneM) =>
        /\ self.spec.fb = self.filterbank
        /\ self.spec.log = self.log
        /\ self.log => (self.spec.mul = self.mul /\ self.spec.add = self.add)

\* C19 when every installed filterbank fits the transform: a Present spec
\* was computed with the current parameters.
C19_CoherentWhenFilterbankFits ==
    (/\ obj = "ok"
     /\ self.spec # NoneM
     /\ ~(/\ self.filterbank # NoFB
          /\ self.stft # NoneM
          /\ self.filterbank.rows # self.stft.cols)) =>
        /\ self.spec.fb = self.filterbank
        /\ self.spec.log = self.log
        /\ self.log => (self.spec.mul = self.mul /\ self.spec.add = self.add)

\* C20: all Present matrices among stft, spec, phase and lgd have the same
\* number of rows, after any reads and compute_stft calls with full, range
\* or single-index selections.
C20_SameRows ==
    obj = "ok" =>
        \A m1, m2 \in Matrices :
            (self[m1] # NoneM /\ self[m2] # NoneM) =>
                self[m1].rows = self[m2].rows

\* C20, the matrices of one pass: those a compute_stft call allocates
\* have the same number of rows.
C20_PassRowsAgree ==
    [][(last'.op = "compute_stft" /\ last'.passes > 0) =>
          \A m1, m2 \in last'.wrote : self'[m1].rows = self'[m2].rows]_vars

\* C20, a state the code reaches: a pass over a range of the frames has
\* succeeded and replaced stft and spec, written in full, while the phase
\* derived earlier from all frames is still cached.
C20_StalePhaseReached ==
    /\ obj = "ok" /\ self.num_frames = MaxFrames
    /\ last.op = "compute_stft" /\ last.err = "ok"
    /\ self.stft # NoneM /\ self.phase # NoneM
    /\ self.stft.sel.kind = "slice"
    /\ self.stft.rows > 0
    /\ self.stft.filled = self.stft.rows
    /\ self.stft.rows < self.phase.rows
    /\ self.phase.rows = MaxFrames

\* C21: a Present phase matrix was derived from a transform of circularly
\* shifted frames, whatever was read before it on the container; here for
\* every phase matrix that holds at least one written row.
C21_PhaseFromShiftedFrames ==
    (obj = "ok" /\ self.phase # NoneM /\ self.phase.filled > 0) =>
        self.phase.shifted

\* C21, the first read on a container: a phase read with no transform cached
\* runs a pass over shifted frames.
C21_FirstPhaseReadShifted ==
    [][(last'.op = "read_phase" /\ self.phase = NoneM /\ self.stft = NoneM
          /\ last'.err = "ok") => self'.phase.shifted]_vars

\* C22: a constructor with norm_window enabled changes neither the window
\* array the caller keeps nor the window of another container, so a
\* container constructed with the default window and norm_window disabled
\* has the unnormalized Hann window whatever was constructed before it.
C22_WindowIsolation ==
    /\ ~arrays["caller"]
    /\ (last.op = "init" /\ last.err = "ok" /\ last.arg.window = "default"
          /\ ~last.arg.norm_window) => ~arrays["default"]

\* C22, what the code does keep: a constructor with norm_window disabled
\* leaves both window arrays as they were.
C22_PlainConstructorKeepsArrays ==
    [][(last'.op = "init" /\ last' # last /\ ~last'.arg.norm_window) =>
          arrays' = arrays]_vars

\* C22, a state the code reaches: a container built with the default window
\* and norm_window disabled holds a normalized window.
C22_NormalizedDefaultReached ==
    /\ obj = "ok" /\ last.op = "init" /\ self.window = "default"
    /\ ~last.arg.norm_window /\ arrays["default"]

====
